---------------------------- MODULE Spec2Model ----------------------------
(* A model of UserService (src/unnamed/part_000): the Parse REST client that *)
(* signs up, logs in, logs out and resets passwords, and keeps the session   *)
(* token and the serialized user record in the device's secure storage.      *)
(*                                                                           *)
(* Every await of the source is a scheduling point: an async method is cut   *)
(* into the steps between its awaits, the program counter of a pending call  *)
(* names the await it is suspended at.  The HTTP server and the secure       *)
(* storage plugin are the environment: a request resolves with any response  *)
(* or rejects, a storage operation takes effect, resolves without effect or  *)
(* rejects.                                                                  *)
EXTENDS Integers, Sequences, FiniteSets, TLC

-----------------------------------------------------------------------------
(* Program constants *)

SESSION_TOKEN_KEY == "parse_session_token"
USER_DATA_KEY == "parse_user_data"

StatusCreated == 201
StatusOK == 200
StatusRedirect == 300
CodeUsernameTaken == 202
CodeEmailTaken == 203
CodeObjectNotFound == 101
LockedPhrase == <<"Your", "account", "is", "locked">>

-----------------------------------------------------------------------------
(* Strings.  A string the code looks into (an e-mail address, an error       *)
(* message) is a sequence of pieces; an opaque one (a token, an id) is a     *)
(* TLA+ string.                                                              *)

\* String.prototype.toLowerCase on one piece
LowerPiece(p) ==
  CASE p = "Ann" -> "ann"
    [] p = "X.io" -> "x.io"
    [] OTHER -> p

toLowerCase(s) == [i \in DOMAIN s |-> LowerPiece(s[i])]

\* String.prototype.includes
includes(s, sub) ==
  \E i \in 1..(Len(s) - Len(sub) + 1) : SubSeq(s, i, i + Len(sub) - 1) = sub

-----------------------------------------------------------------------------
(* JSON.  An object is a function from its own keys to values (a missing key *)
(* reads as undefined); an optional value is the empty set (undefined, null) *)
(* or a singleton.  A JSON text is its member list in order, or ill-formed.  *)

None == {}
Some(v) == {v}

Field(obj, f) == IF f \in DOMAIN obj THEN Some(obj[f]) ELSE None

KeyOrder ==
  <<"objectId", "createdAt", "updatedAt", "sessionToken", "code", "error",
    "username", "email">>

\* JSON.stringify; the variant loses the optional email member
JSONstringifyDropsEmail(obj) ==
  LET keys == SelectSeq(KeyOrder, LAMBDA k : k \in DOMAIN obj /\ k # "email")
  IN  [wellFormed |-> TRUE,
       members |-> [i \in 1..Len(keys) |-> <<keys[i], obj[keys[i]]>>]]

JSONstringify(obj) ==
  LET keys == SelectSeq(KeyOrder, LAMBDA k : k \in DOMAIN obj)
  IN  [wellFormed |-> TRUE,
       members |-> [i \in 1..Len(keys) |-> <<keys[i], obj[keys[i]]>>]]

\* JSON.parse / HttpContent.toJSON throw on an ill-formed text
CanParse(text) == text.wellFormed

Last(S) == CHOOSE i \in S : \A j \in S : j <= i

JSONparse(text) ==
  LET m == text.members
  IN  [k \in {m[i][1] : i \in DOMAIN m} |->
         m[Last({i \in DOMAIN m : m[i][1] = k})][2]]

\* the spread written last: the response's username and email win
SpreadUserResponseWins(responseData, username, lowercasedEmail) ==
  [k \in DOMAIN responseData \cup {"username", "email"} |->
     IF k \in DOMAIN responseData THEN responseData[k]
     ELSE IF k = "username" THEN username
     ELSE lowercasedEmail]

\* { ...responseData, username, email: lowercasedEmail }
SpreadUser(responseData, username, lowercasedEmail) ==
  [k \in DOMAIN responseData \cup {"username", "email"} |->
     IF k = "username" THEN username
     ELSE IF k = "email" THEN lowercasedEmail
     ELSE responseData[k]]

-----------------------------------------------------------------------------
(* The secure storage plugin: a key-value store.  An operation takes effect  *)
(* ("ok"), resolves false without effect ("false") or rejects ("throw").     *)

EmptyStore == [k \in {} |-> k]

StorageOutcomes == {"ok", "false", "throw"}
GetOutcomes == {"ok", "throw"}

Put(st, k, v) == [x \in DOMAIN st \cup {k} |-> IF x = k THEN v ELSE st[x]]
Del(st, k) == [x \in DOMAIN st \ {k} |-> st[x]]

\* secureStorage.set({key, value}); an undefined value reaches the native
\* layer as null, which the keystore answers by deleting the key, by
\* refusing, or by throwing.
StorageSet(st, k, value, o) ==
  IF o # "ok" THEN st
  ELSE IF value = None THEN Del(st, k)
  ELSE Put(st, k, CHOOSE v \in value : TRUE)

\* secureStorage.remove({key})
StorageRemove(st, k, o) == IF o = "ok" THEN Del(st, k) ELSE st

\* secureStorage.get({key}): null for a missing key
StorageGet(st, k) == Field(st, k)

-----------------------------------------------------------------------------
(* The HTTP server: what request() can resolve with.  *)

Wire(members) == [wellFormed |-> TRUE, members |-> members]
IllFormed == [wellFormed |-> FALSE, members |-> <<>>]

UserContents ==
  { Wire(<< <<"objectId", "o1">>, <<"username", "ann">>,
             <<"email", <<"ann", "@", "x.io">> >>, <<"createdAt", "t0">>,
             <<"updatedAt", "t0">>, <<"sessionToken", "r:1">> >>),
    Wire(<< <<"objectId", "o2">>, <<"username", "bob">>, <<"createdAt", "t0">>,
             <<"updatedAt", "t1">>, <<"sessionToken", "r:2">> >>),
    Wire(<< <<"objectId", "o3">>, <<"createdAt", "t2">>,
             <<"sessionToken", "r:2">> >>) }

ErrorContents ==
  { Wire(<< <<"code", 202>>,
             <<"error", <<"Account", "already", "exists", "for", "this", "username.">> >> >>),
    Wire(<< <<"code", 203>>,
             <<"error", <<"Account", "already", "exists", "for", "this", "email.">> >> >>),
    Wire(<< <<"code", 101>>, <<"error", <<"Invalid", "username/password.">> >> >>),
    Wire(<< <<"code", 101>>,
             <<"error", <<"Your", "account", "is", "locked", "due", "to", "failed", "logins">> >> >>),
    Wire(<< <<"code", 101>>, <<"error", <<"This", "account", "is", "locked">> >> >>),
    Wire(<< <<"code", 101>> >>),
    Wire(<< <<"code", 209>>, <<"error", <<"Invalid", "session", "token">> >> >>) }

Contents == UserContents \cup ErrorContents \cup {IllFormed}

Statuses == {199, 200, 201, 299, 300}

Threw == [threw |-> TRUE, status |-> 0, content |-> None]
NoResponse == [threw |-> FALSE, status |-> 0, content |-> None]

Resolved(S, C) ==
  {[threw |-> FALSE, status |-> s, content |-> c] :
     s \in S, c \in {None} \cup {Some(x) : x \in C}}

\* every outcome of a request whose response the caller reads
Responses == {Threw} \cup Resolved(Statuses, Contents)

\* every outcome of a request of which the caller reads the status alone
StatusResponses == {Threw} \cup Resolved(Statuses, {IllFormed})

\* signUpUser(username, email, password)
SignUpInputs ==
  { [username |-> "ann", email |-> <<"Ann", "@", "X.io">>],
    [username |-> "bob", email |-> <<"bob", "@", "x.io">>] }

-----------------------------------------------------------------------------
(* State *)

VARIABLES
  store,    \* the secure storage: a function from the keys present to values
  call,     \* per call slot: the pending call, its locals and what it returned
  written   \* the user object of the last write to USER_DATA_KEY that took
            \* effect and was not removed since (history)

vars == <<store, call, written>>

Slots == {"c1", "c2"}
SeqSlots == {"c1"}

IdleCall ==
  [op |-> "none", pc |-> "idle",
   username |-> "", argEmail |-> <<>>, email |-> <<>>,   \* signUp's arguments
   user |-> None,            \* const user
   sessionToken |-> None,    \* logOutUser's const sessionToken
   result |-> "", retUser |-> None, retToken |-> None, rejected |-> FALSE,
   \* history of the call
   resp |-> NoResponse,      \* what request() resolved with
   sent |-> FALSE,           \* whether the call issued a request
   pre |-> EmptyStore,       \* the store when the call was made
   ioFail |-> FALSE]         \* whether a storage operation of the call failed

Init ==
  /\ store = EmptyStore
  /\ call = [t \in Slots |-> IdleCall]
  /\ written = None

\* a call that returned r, and one whose promise rejected
Return(c, r) == [c EXCEPT !.pc = "done", !.result = r]
Reject(c) == [c EXCEPT !.pc = "done", !.result = "REJECTED", !.rejected = TRUE]
Text(content) == CHOOSE x \in content : TRUE

-----------------------------------------------------------------------------
(* signUpUser *)

\* lines 27-34: lower-case the e-mail, issue POST /users, await the response
SignUpCall(t) ==
  /\ call[t].pc = "idle"
  /\ \E in \in SignUpInputs :
       call' = [call EXCEPT ![t] =
                  [IdleCall EXCEPT !.op = "signUp", !.pc = "su_request",
                                   !.username = in.username,
                                   !.argEmail = in.email,
                                   !.email = toLowerCase(in.email),
                                   !.sent = TRUE, !.pre = store]]
  /\ UNCHANGED <<store, written>>

\* any 2xx taken for the status of a created user
SignUpCreatedOn2xx(r) ==
  r.status >= StatusOK /\ r.status < StatusRedirect /\ r.content # None

\* 200 taken for the status of a created user
SignUpCreatedOn200(r) == r.status = StatusOK /\ r.content # None

\* line 36: the branch that stores the session
SignUpCreated(r) == r.status = StatusCreated /\ r.content # None

\* the two vendor codes taken for each other
SignUpErrorResultSwapped(r) ==
  IF r.content # None
    THEN IF ~CanParse(Text(r.content)) THEN "ERROR"
         ELSE LET errorData == JSONparse(Text(r.content))
              IN  IF Field(errorData, "code") = Some(CodeEmailTaken)
                    THEN "EXISTING_USERNAME"
                  ELSE IF Field(errorData, "code") = Some(CodeUsernameTaken)
                    THEN "EXISTING_EMAIL"
                  ELSE "ERROR"
    ELSE "ERROR"

\* lines 52-65
SignUpErrorResult(r) ==
  IF r.content # None
    THEN IF ~CanParse(Text(r.content)) THEN "ERROR"
         ELSE LET errorData == JSONparse(Text(r.content))
              IN  IF Field(errorData, "code") = Some(CodeUsernameTaken)
                    THEN "EXISTING_USERNAME"
                  ELSE IF Field(errorData, "code") = Some(CodeEmailTaken)
                    THEN "EXISTING_EMAIL"
                  ELSE "ERROR"
    ELSE "ERROR"

\* lines 29-38, 51-70: the code from the response to the next await or return
SignUpAfterRequest(c, r) ==
  LET c1 == [c EXCEPT !.resp = r]
  IN  IF r.threw THEN Return(c1, "ERROR")
      ELSE IF SignUpCreated(r)
        THEN IF ~CanParse(Text(r.content)) THEN Return(c1, "ERROR")
             ELSE [c1 EXCEPT !.pc = "su_set_token",
                             !.user = Some(SpreadUser(JSONparse(Text(r.content)),
                                                      c.username, c.email))]
      ELSE Return(c1, SignUpErrorResult(r))

SignUpResponse(t, R) ==
  /\ call[t].pc = "su_request"
  /\ \E r \in R : call' = [call EXCEPT ![t] = SignUpAfterRequest(call[t], r)]
  /\ UNCHANGED <<store, written>>

\* lines 40-43, 89-92: await secureStorage.set({key: SESSION_TOKEN_KEY, ...})
SetToken(t, next) ==
  LET c == call[t]
      user == Text(c.user)
  IN  \E o \in StorageOutcomes :
        /\ store' = StorageSet(store, SESSION_TOKEN_KEY, Field(user, "sessionToken"), o)
        /\ call' = [call EXCEPT ![t] =
                      IF o = "throw"
                        THEN Return([c EXCEPT !.ioFail = TRUE], "ERROR")
                        ELSE [c EXCEPT !.pc = next, !.ioFail = @ \/ o # "ok"]]
        /\ UNCHANGED written

\* lines 44-50, 93-98: await secureStorage.set({key: USER_DATA_KEY, ...}), return
SetData(t, result) ==
  LET c == call[t]
      user == Text(c.user)
  IN  \E o \in StorageOutcomes :
        /\ store' = StorageSet(store, USER_DATA_KEY, Some(JSONstringify(user)), o)
        /\ written' = IF o = "ok" THEN Some(user) ELSE written
        /\ call' = [call EXCEPT ![t] =
                      IF o = "throw"
                        THEN Return([c EXCEPT !.ioFail = TRUE], "ERROR")
                        ELSE Return([c EXCEPT !.ioFail = @ \/ o # "ok"], result)]

SignUpSetToken(t) == call[t].pc = "su_set_token" /\ SetToken(t, "su_set_data")

SignUpSetData(t) == call[t].pc = "su_set_data" /\ SetData(t, "CREATED")

-----------------------------------------------------------------------------
(* logInUser *)

\* lines 74-84: issue GET /login, await the response
LogInCall(t) ==
  /\ call[t].pc = "idle"
  /\ call' = [call EXCEPT ![t] =
                [IdleCall EXCEPT !.op = "logIn", !.pc = "li_request",
                                 !.sent = TRUE, !.pre = store]]
  /\ UNCHANGED <<store, written>>

\* 200 alone taken for success
LogInSuccessOn200(r) == r.status = StatusOK /\ r.content # None

\* line 86
LogInSuccess(r) ==
  r.status >= StatusOK /\ r.status < StatusRedirect /\ r.content # None

\* lines 100-113; errorData.error.includes throws on a missing error
LogInErrorResult(r) ==
  IF r.content # None
    THEN IF ~CanParse(Text(r.content)) THEN "ERROR"
         ELSE LET errorData == JSONparse(Text(r.content))
              IN  IF Field(errorData, "code") = Some(CodeObjectNotFound)
                    THEN IF Field(errorData, "error") = None THEN "ERROR"
                         ELSE IF includes(errorData["error"], LockedPhrase)
                           THEN "ACCOUNT_LOCKED"
                         ELSE "INVALID_CREDENTIALS"
                  ELSE "ERROR"
    ELSE "ERROR"

\* lines 80-87, 99-118
LogInAfterRequest(c, r) ==
  LET c1 == [c EXCEPT !.resp = r]
  IN  IF r.threw THEN Return(c1, "ERROR")
      ELSE IF LogInSuccess(r)
        THEN IF ~CanParse(Text(r.content)) THEN Return(c1, "ERROR")
             ELSE [c1 EXCEPT !.pc = "li_set_token",
                             !.user = Some(JSONparse(Text(r.content)))]
      ELSE Return(c1, LogInErrorResult(r))

LogInResponse(t, R) ==
  /\ call[t].pc = "li_request"
  /\ \E r \in R : call' = [call EXCEPT ![t] = LogInAfterRequest(call[t], r)]
  /\ UNCHANGED <<store, written>>

LogInSetToken(t) == call[t].pc = "li_set_token" /\ SetToken(t, "li_set_data")

LogInSetData(t) == call[t].pc = "li_set_data" /\ SetData(t, "SUCCESS")

-----------------------------------------------------------------------------
(* resetPassword *)

\* lines 122-128: issue POST /requestPasswordReset, await the response
ResetPasswordCall(t) ==
  /\ call[t].pc = "idle"
  /\ call' = [call EXCEPT ![t] =
                [IdleCall EXCEPT !.op = "resetPassword", !.pc = "rp_request",
                                 !.sent = TRUE, !.pre = store]]
  /\ UNCHANGED <<store, written>>

\* any 2xx taken for success
ResetPasswordAfterRequestOn2xx(c, r) ==
  LET c1 == [c EXCEPT !.resp = r]
  IN  IF r.threw THEN Return(c1, "FALSE")
      ELSE IF r.status >= StatusOK /\ r.status < StatusRedirect
        THEN Return(c1, "TRUE")
      ELSE Return(c1, "FALSE")

\* lines 130-141
ResetPasswordAfterRequest(c, r) ==
  LET c1 == [c EXCEPT !.resp = r]
  IN  IF r.threw THEN Return(c1, "FALSE")
      ELSE IF r.status = StatusOK THEN Return(c1, "TRUE")
      ELSE Return(c1, "FALSE")

ResetPasswordResponse(t, R) ==
  /\ call[t].pc = "rp_request"
  /\ \E r \in R : call' = [call EXCEPT ![t] = ResetPasswordAfterRequest(call[t], r)]
  /\ UNCHANGED <<store, written>>

-----------------------------------------------------------------------------
(* logOutUser *)

\* line 145: call getSessionToken and await it
LogOutCall(t) ==
  /\ call[t].pc = "idle"
  /\ call' = [call EXCEPT ![t] =
                [IdleCall EXCEPT !.op = "logOut", !.pc = "lo_get_token",
                                 !.pre = store]]
  /\ UNCHANGED <<store, written>>

\* the early return missing: the local data is cleared with no token stored
LogOutAfterGetNoReturn(c, token) ==
  IF token = None THEN [c EXCEPT !.pc = "lo_remove_token"]
  ELSE [c EXCEPT !.pc = "lo_request", !.sessionToken = token, !.sent = TRUE]

\* lines 146-155: no token, return; otherwise issue POST /logout and await it
LogOutAfterGet(c, token) ==
  IF token = None THEN Return(c, "VOID")
  ELSE [c EXCEPT !.pc = "lo_request", !.sessionToken = token, !.sent = TRUE]

\* lines 145, 174-176: the read of the token; a rejected read is not caught
LogOutGetToken(t) ==
  /\ call[t].pc = "lo_get_token"
  /\ \E o \in GetOutcomes :
       call' = [call EXCEPT ![t] =
                  IF o = "throw" THEN Reject([call[t] EXCEPT !.ioFail = TRUE])
                  ELSE LogOutAfterGet(call[t], StorageGet(store, SESSION_TOKEN_KEY))]
  /\ UNCHANGED <<store, written>>

\* the clearing done after a resolved request only, not in a finally block
LogOutResponseNoFinally(t, R) ==
  /\ call[t].pc = "lo_request"
  /\ \E r \in R :
       call' = [call EXCEPT ![t] =
                  IF r.threw THEN Return([@ EXCEPT !.resp = r], "VOID")
                  ELSE [@ EXCEPT !.pc = "lo_remove_token", !.resp = r]]
  /\ UNCHANGED <<store, written>>

\* lines 151-160: resolved or rejected, control reaches the finally block
LogOutResponse(t, R) ==
  /\ call[t].pc = "lo_request"
  /\ \E r \in R :
       call' = [call EXCEPT ![t] = [@ EXCEPT !.pc = "lo_remove_token", !.resp = r]]
  /\ UNCHANGED <<store, written>>

\* line 161: a rejected remove leaves the finally block by throwing
LogOutRemoveToken(t) ==
  /\ call[t].pc = "lo_remove_token"
  /\ \E o \in StorageOutcomes :
       /\ store' = StorageRemove(store, SESSION_TOKEN_KEY, o)
       /\ call' = [call EXCEPT ![t] =
                     IF o = "throw" THEN Reject([@ EXCEPT !.ioFail = TRUE])
                     ELSE [@ EXCEPT !.pc = "lo_remove_data", !.ioFail = @ \/ o # "ok"]]
  /\ UNCHANGED written

\* lines 162-164
LogOutRemoveData(t) ==
  /\ call[t].pc = "lo_remove_data"
  /\ \E o \in StorageOutcomes :
       /\ store' = StorageRemove(store, USER_DATA_KEY, o)
       /\ written' = IF o = "ok" THEN None ELSE written
       /\ call' = [call EXCEPT ![t] =
                     IF o = "throw" THEN Reject([@ EXCEPT !.ioFail = TRUE])
                     ELSE Return([@ EXCEPT !.ioFail = @ \/ o # "ok"], "VOID")]

-----------------------------------------------------------------------------
(* getCurrentUser, getSessionToken *)

\* line 167: issue the read and await it
GetCurrentUserCall(t) ==
  /\ call[t].pc = "idle"
  /\ call' = [call EXCEPT ![t] =
                [IdleCall EXCEPT !.op = "getCurrentUser", !.pc = "gu_get",
                                 !.pre = store]]
  /\ UNCHANGED <<store, written>>

\* lines 168-171; JSON.parse throws on an ill-formed text
GetCurrentUserAfterGet(c, userData) ==
  IF userData = None THEN Return(c, "NULL")
  ELSE IF ~CanParse(Text(userData)) THEN Reject(c)
  ELSE Return([c EXCEPT !.retUser = Some(JSONparse(Text(userData)))], "USER")

GetCurrentUserGet(t) ==
  /\ call[t].pc = "gu_get"
  /\ \E o \in GetOutcomes :
       call' = [call EXCEPT ![t] =
                  IF o = "throw" THEN Reject([call[t] EXCEPT !.ioFail = TRUE])
                  ELSE GetCurrentUserAfterGet(call[t], StorageGet(store, USER_DATA_KEY))]
  /\ UNCHANGED <<store, written>>

\* line 175: issue the read and await it
GetSessionTokenCall(t) ==
  /\ call[t].pc = "idle"
  /\ call' = [call EXCEPT ![t] =
                [IdleCall EXCEPT !.op = "getSessionToken", !.pc = "gt_get",
                                 !.pre = store]]
  /\ UNCHANGED <<store, written>>

\* line 175: return what the read resolved with
GetSessionTokenAfterGet(c, token) ==
  Return([c EXCEPT !.retToken = token], IF token = None THEN "NULL" ELSE "TOKEN")

GetSessionTokenGet(t) ==
  /\ call[t].pc = "gt_get"
  /\ \E o \in GetOutcomes :
       call' = [call EXCEPT ![t] =
                  IF o = "throw" THEN Reject([call[t] EXCEPT !.ioFail = TRUE])
                  ELSE GetSessionTokenAfterGet(call[t], StorageGet(store, SESSION_TOKEN_KEY))]
  /\ UNCHANGED <<store, written>>

-----------------------------------------------------------------------------
(* The caller takes the settled promise; the slot is free for the next call. *)

Settle(t) ==
  /\ call[t].pc = "done"
  /\ call' = [call EXCEPT ![t] = IdleCall]
  /\ UNCHANGED <<store, written>>

-----------------------------------------------------------------------------
(* Specifications *)

\* One call at a time: the caller awaits each call before making the next.
Next ==
  \/ \E t \in SeqSlots : SignUpCall(t)
  \/ \E t \in SeqSlots : SignUpResponse(t, Responses)
  \/ \E t \in SeqSlots : SignUpSetToken(t)
  \/ \E t \in SeqSlots : SignUpSetData(t)
  \/ \E t \in SeqSlots : LogInCall(t)
  \/ \E t \in SeqSlots : LogInResponse(t, Responses)
  \/ \E t \in SeqSlots : LogInSetToken(t)
  \/ \E t \in SeqSlots : LogInSetData(t)
  \/ \E t \in SeqSlots : ResetPasswordCall(t)
  \/ \E t \in SeqSlots : ResetPasswordResponse(t, StatusResponses)
  \/ \E t \in SeqSlots : LogOutCall(t)
  \/ \E t \in SeqSlots : LogOutGetToken(t)
  \/ \E t \in SeqSlots : LogOutResponse(t, StatusResponses)
  \/ \E t \in SeqSlots : LogOutRemoveToken(t)
  \/ \E t \in SeqSlots : LogOutRemoveData(t)
  \/ \E t \in SeqSlots : GetCurrentUserCall(t)
  \/ \E t \in SeqSlots : GetCurrentUserGet(t)
  \/ \E t \in SeqSlots : GetSessionTokenCall(t)
  \/ \E t \in SeqSlots : GetSessionTokenGet(t)
  \/ \E t \in SeqSlots : Settle(t)

Spec == Init /\ [][Next]_vars

\* what the server answers in the overlapping runs: a rejected request, or
\* 201 with the record of one of two users
OverlapResponses ==
  {Threw} \cup
  {r \in Resolved({201}, UserContents) :
     r.content # None /\ "username" \in DOMAIN JSONparse(Text(r.content))}

\* Calls overlap: a call is made while another is suspended at an await, and
\* the steps of the two interleave at their awaits.  The storage is reliable
\* here (every storage operation takes effect), so that what the runs show
\* is owed to the interleaving alone.
NextOverlap ==
  \/ \E t \in Slots : SignUpCall(t)
  \/ \E t \in Slots : SignUpResponse(t, OverlapResponses)
  \/ \E t \in Slots : SignUpSetToken(t) /\ ~call'[t].ioFail
  \/ \E t \in Slots : SignUpSetData(t) /\ ~call'[t].ioFail
  \/ \E t \in Slots : LogInCall(t)
  \/ \E t \in Slots : LogInResponse(t, OverlapResponses)
  \/ \E t \in Slots : LogInSetToken(t) /\ ~call'[t].ioFail
  \/ \E t \in Slots : LogInSetData(t) /\ ~call'[t].ioFail
  \/ \E t \in Slots : LogOutCall(t)
  \/ \E t \in Slots : LogOutGetToken(t) /\ ~call'[t].ioFail
  \/ \E t \in Slots : LogOutResponse(t, {Threw})
  \/ \E t \in Slots : LogOutRemoveToken(t) /\ ~call'[t].ioFail
  \/ \E t \in Slots : LogOutRemoveData(t) /\ ~call'[t].ioFail
  \/ \E t \in Slots : Settle(t)

SpecOverlap == Init /\ [][NextOverlap]_vars

-----------------------------------------------------------------------------
(* Properties *)

HasToken(st) == SESSION_TOKEN_KEY \in DOMAIN st
HasRecord(st) == USER_DATA_KEY \in DOMAIN st

Finished(c, op) == c.op = op /\ c.pc = "done"
Received(c) == ~c.resp.threw /\ c.resp.status # 0
ReceivedObject(c) ==
  Received(c) /\ c.resp.content # None /\ CanParse(Text(c.resp.content))
ResponseObject(c) == JSONparse(Text(c.resp.content))
ReceivedCode(c, code) ==
  ReceivedObject(c) /\ Field(ResponseObject(c), "code") = Some(code)

\* C1: in every reachable state the session token key and the user record
\* key are both present or both absent.
C1_TokenAndRecordTogether == HasToken(store) <=> HasRecord(store)

C3_NoExceptionPropagates == \A t \in Slots : ~call[t].rejected


ValidBody(c) ==
  ReceivedObject(c) /\ Field(ResponseObject(c), "sessionToken") # None

SignUpVendorResult(c) ==
  IF ReceivedCode(c, 202) THEN "EXISTING_USERNAME" ELSE "EXISTING_EMAIL"

\* C5 as stated: a signUp whose response carried vendor code 202 returned
\* EXISTING_USERNAME, one whose response carried 203 returned EXISTING_EMAIL,
\* and the store is what it was before the call, whatever the HTTP status.
C5_SignUpVendorCodeAnyStatus ==
  \A t \in Slots :
    LET c == call[t]
    IN  (Finished(c, "signUp") /\ (ReceivedCode(c, 202) \/ ReceivedCode(c, 203)))
          => (c.result = SignUpVendorResult(c) /\ store = c.pre)

\* C5 amended: a signUp whose response had an HTTP status other than 201 and
\* carried vendor code 202 returned EXISTING_USERNAME, one that carried 203
\* returned EXISTING_EMAIL, and the store is what it was before the call.
C5_SignUpVendorCodeNot201 ==
  \A t \in Slots :
    LET c == call[t]
    IN  (Finished(c, "signUp") /\ c.resp.status # 201
           /\ (ReceivedCode(c, 202) \/ ReceivedCode(c, 203)))
          => (c.result = SignUpVendorResult(c) /\ store = c.pre)

C5_Witness ==
  \E t \in Slots :
    /\ Finished(call[t], "signUp") /\ ReceivedCode(call[t], 203)
    /\ call[t].resp.status = 200
    /\ call[t].result = "EXISTING_EMAIL"
    /\ HasToken(store) /\ HasRecord(store) /\ store = call[t].pre

NonSuccessLogIn(c) ==
  Finished(c, "logIn")
    /\ (c.resp.threw \/ c.resp.status < 200 \/ c.resp.status > 299)

\* C7: a logIn whose response was not 2xx returned ACCOUNT_LOCKED for vendor
\* code 101 with a message containing "account is locked",
\* INVALID_CREDENTIALS for code 101 with any other or no message, and ERROR
\* for every other code, empty content or transport failure.
C7_LogInErrorMapping ==
  \A t \in Slots :
    LET c == call[t]
    IN  NonSuccessLogIn(c) =>
          c.result =
            IF ReceivedCode(c, 101)
              THEN IF Field(ResponseObject(c), "error") # None
                        /\ includes(ResponseObject(c)["error"],
                                    <<"account", "is", "locked">>)
                     THEN "ACCOUNT_LOCKED"
                     ELSE "INVALID_CREDENTIALS"
              ELSE "ERROR"

\* C8: a logOut made with no session token stored issues no HTTP request and
\* leaves the whole store, the user record included, as it was.
C8_LogOutWithoutTokenIsNoOp ==
  \A t \in Slots :
    (Finished(call[t], "logOut") /\ ~HasToken(call[t].pre))
      => (~call[t].sent /\ store = call[t].pre)

C8_Witness ==
  \E t \in Slots :
    /\ Finished(call[t], "logOut") /\ ~HasToken(call[t].pre)
    /\ HasRecord(call[t].pre) /\ call[t].result = "VOID"
    /\ ~call[t].sent /\ store = call[t].pre

\* the store that holds exactly the session of user object u
SessionOf(u) ==
  Put(Put(EmptyStore, SESSION_TOKEN_KEY, u["sessionToken"]),
      USER_DATA_KEY, JSONstringify(u))

\* C9: the stored session follows created / overwritten / deleted, call by
\* call: a signUp or logIn that returned CREATED / SUCCESS leaves exactly its
\* own token and record (its response having a valid body), a logOut made
\* with a token stored leaves nothing, and every other call leaves the store
\* as it found it.
C9_SessionLifecycle ==
  \A t \in Slots :
    LET c == call[t]
    IN  c.pc = "done" =>
          IF c.op \in {"signUp", "logIn"} /\ c.result \in {"CREATED", "SUCCESS"}
            THEN ValidBody(c) => store = SessionOf(Text(c.user))
          ELSE IF c.op = "logOut" /\ HasToken(c.pre)
            THEN store = EmptyStore
          ELSE store = c.pre

\* C10: a getCurrentUser that returned gave null when no record is stored,
\* and otherwise exactly the user object last written to the store by a
\* signUp or logIn.
C10_GetCurrentUserRoundTrip ==
  \A t \in Slots :
    LET c == call[t]
    IN  (Finished(c, "getCurrentUser") /\ ~c.rejected) =>
          IF HasRecord(store)
            THEN c.result = "USER" /\ written # None /\ c.retUser = written
            ELSE c.result = "NULL" /\ c.retUser = None

C10_Witness ==
  \E t \in Slots :
    /\ Finished(call[t], "getCurrentUser") /\ call[t].result = "USER"
    /\ \E u \in call[t].retUser :
         /\ DOMAIN u = {"objectId", "username", "email", "sessionToken",
                        "createdAt", "updatedAt"}
         /\ u["email"] = <<"ann", "@", "x.io">>
         /\ written = Some(u)


\* C11: a signUp whose request threw, or whose response had a status other
\* than 201 and carried neither vendor code 202 nor 203 (another code, no
\* code, ill-formed or no content), returned ERROR.
C11_SignUpOtherwiseError ==
  \A t \in Slots :
    LET c == call[t]
    IN  (Finished(c, "signUp")
           /\ (c.resp.threw
                 \/ (c.resp.status # 201 /\ ~ReceivedCode(c, 202)
                       /\ ~ReceivedCode(c, 203))))
          => c.result = "ERROR"

C11_Witness ==
  \E t \in Slots :
    /\ Finished(call[t], "signUp") /\ call[t].resp.status = 200
    /\ ValidBody(call[t]) /\ call[t].result = "ERROR"

\* C12: resetPassword returned true exactly when its response had status
\* 200, and false for every other status and for a request that threw.
C12_ResetPasswordTrueOnlyOn200 ==
  \A t \in Slots :
    LET c == call[t]
    IN  Finished(c, "resetPassword") =>
          /\ c.result \in {"TRUE", "FALSE"}
          /\ c.result = "TRUE" <=> (~c.resp.threw /\ c.resp.status = 200)

C12_Witness ==
  \E t \in Slots :
    /\ Finished(call[t], "resetPassword") /\ call[t].resp.status = 201
    /\ call[t].result = "FALSE"

StoredRecord == JSONparse(store[USER_DATA_KEY])

C14_FailedAttemptKeepsStore ==
  \A t \in Slots :
    LET c == call[t]
    IN  (c.pc = "done" /\ c.op \in {"signUp", "logIn"}
           /\ c.result \notin {"CREATED", "SUCCESS"})
          => store = c.pre


\* C15: once a logOut and a signUp or logIn whose executions interleaved at
\* their awaits have both completed, the store holds both the session token
\* and the user record, or neither.
C15_OverlapLeavesBothOrNeither ==
  \A t, u \in Slots :
    (Finished(call[t], "logOut") /\ call[u].pc = "done"
       /\ call[u].op \in {"signUp", "logIn"})
      => (HasToken(store) <=> HasRecord(store))

\* C16: whenever no operation is in progress and both keys are present, the
\* stored session token is the sessionToken of the stored user record.
C16_TokenBelongsToRecord ==
  ((\A t \in Slots : call[t].pc \in {"idle", "done"})
     /\ HasToken(store) /\ HasRecord(store))
    => Field(StoredRecord, "sessionToken") = Some(store[SESSION_TOKEN_KEY])

=============================================================================
